---- MODULE Spec2Model ----
(***************************************************************************)
(* A model of the two Zettel parsers of parsers/zettelMarkdown.c and       *)
(* parsers/zettelMetadata.c.                                               *)
(*                                                                         *)
(*  - The ZettelMarkdown parser is a multi-table regular-expression        *)
(*    scanner: seven tables of patterns, tried in declaration order at the *)
(*    current offset of the input.  Every pattern is translated to an      *)
(*    operator that computes the length of its (POSIX leftmost-longest)    *)
(*    match at a position, or NoMatch.                                     *)
(*  - The ZettelMetadata parser is a subparser of the Yaml parser: a       *)
(*    callback that is run once per YAML token and keeps a small state.    *)
(*                                                                         *)
(* Characters are one-character strings, the input is a sequence of them.  *)
(***************************************************************************)
EXTENDS Integers, Sequences, FiniteSets, TLC

VARIABLES
    input,          \* the text the region scanner runs over
    offset,         \* the scanner's offset into input (0-based)
    table,          \* the scanner's current table
    tstack,         \* the scanner's stack of saved tables
    scanning,       \* TRUE until the scan has stopped
    guestStart,     \* start offset of a pending guest (Yaml) request, or NoMatch
    promises,       \* submitted guest areas <<start, end>>
    store,          \* the tag (cork) queue both parsers append to
    kind,           \* zmSubparser.kind
    role,           \* zmSubparser.role
    scalarType,     \* zmSubparser.scalarType
    blockTypeStack, \* zmSubparser.blockTypeStack (head is the top)
    reference,      \* zmSubparser.reference
    mapping,        \* zmSubparser.mapping
    sequence,       \* zmSubparser.sequence
    id,             \* zmSubparser.id
    title,          \* zmSubparser.title
    citekey,        \* zmSubparser.citekey
    reftitle,       \* zmSubparser.reftitle
    corkStack,      \* zmSubparser.corkStack (head is the top)
    refCorkStack,   \* zmSubparser.refCorkStack (head is the top)
    fieldEnabled,   \* ZettelMetadataFieldTable[f].enabled, fixed by the options
    prefixes,       \* the four prefix strings, fixed by the parameters
    render,         \* the tag whose name a field renderer is given, and its buffer
    crashed,        \* TRUE once the callback has dereferenced a NULL stack
    pending,        \* the tokens the Yaml parser has still to deliver
    hist            \* history of the token stream (not program state)

scanVars == <<input, offset, table, tstack, scanning, guestStart, promises>>
zmVars == <<kind, role, scalarType, blockTypeStack, reference, mapping, sequence,
            id, title, citekey, reftitle, corkStack, refCorkStack, crashed,
            pending, hist>>
vars == <<scanVars, store, zmVars, fieldEnabled, prefixes, render>>

(***************************************************************************)
(* Bounds of the model.                                                    *)
(***************************************************************************)
MaxFrags == 3
MaxPairs == 2
MaxName == 3

(***************************************************************************)
(* Characters and character classes.                                       *)
(***************************************************************************)
NL == "\n"
TAB == "\t"
BS == "\\"
DQ == "\""
EOS == ""
\* SANY admits no grave accent in a string: the character 0x60 is written BT
BT == "BT"
NoMatch == 0 - 1

Lower == {"a","b","c","d","e","f","g","h","i","j","k","l","m",
          "n","o","p","q","r","s","t","u","v","w","x","y","z"}
Upper == {"A","B","C","D","E","F","G","H","I","J","K","L","M",
          "N","O","P","Q","R","S","T","U","V","W","X","Y","Z"}
Digit == {"0","1","2","3","4","5","6","7","8","9"}
Blank == {" ", TAB}

At(s, i) == IF i >= 1 /\ i <= Len(s) THEN s[i] ELSE EOS

\* a bracket expression: [C] when neg is FALSE, [^C] when neg is TRUE;
\* neither matches the terminating NUL
InClass(c, C, neg) == c # EOS /\ ((c \in C) # neg)

\* the length of the longest run of characters of the class starting at i
RECURSIVE Run(_, _, _, _)
Run(s, i, C, neg) ==
    IF InClass(At(s, i), C, neg) THEN 1 + Run(s, i + 1, C, neg) ELSE 0

Lit(s, i, w) == \A k \in 1..Len(w) : At(s, i + k - 1) = w[k]

RECURSIVE Concat(_)
Concat(w) == IF w = <<>> THEN "" ELSE Head(w) \o Concat(Tail(w))

Max(S) == CHOOSE m \in S : \A n \in S : n <= m

\* variant: the optional tail never matches
UnderlineAbsent(s, i) == 0

\* the optional tail (\n-+\n)? of the Main patterns: its length, 0 when absent
Underline(s, i) ==
    LET k == Run(s, i + 1, {"-"}, FALSE)
    IN  IF At(s, i) = NL /\ k >= 1 /\ At(s, i + 1 + k) = NL THEN k + 2 ELSE 0

\* <w>([ \t][^\n]*)?\n
MarkerLine(s, i, w) ==
    LET n == Len(w)
        k == Run(s, i + n + 1, {NL}, TRUE)
    IN  IF ~Lit(s, i, w) THEN NoMatch
        ELSE IF At(s, i + n) = NL THEN n + 1
        ELSE IF At(s, i + n) \in Blank /\ At(s, i + n + 1 + k) = NL THEN n + k + 2
        ELSE NoMatch

\* <w>[^\n]*\n
PrefixLine(s, i, w) ==
    LET n == Len(w)
        k == Run(s, i + n, {NL}, TRUE)
    IN  IF Lit(s, i, w) /\ At(s, i + n + k) = NL THEN n + k + 1 ELSE NoMatch

\* <w>[^\n]*
PrefixPartial(s, i, w) ==
    IF Lit(s, i, w) THEN Len(w) + Run(s, i + Len(w), {NL}, TRUE) ELSE NoMatch

\* [ \t]*<f><f><f><f>*[^<f>\n]*\n
FenceOpen(s, i, f) ==
    LET w == Run(s, i, Blank, FALSE)
        t == Run(s, i + w, {f}, FALSE)
        r == Run(s, i + w + t, {f, NL}, TRUE)
    IN  IF t >= 3 /\ At(s, i + w + t + r) = NL THEN w + t + r + 1 ELSE NoMatch

\* [ \t]*<f><f><f><f>*[ \t]*\n
FenceClose(s, i, f) ==
    LET w == Run(s, i, Blank, FALSE)
        t == Run(s, i + w, {f}, FALSE)
        r == Run(s, i + w + t, Blank, FALSE)
    IN  IF t >= 3 /\ At(s, i + w + t + r) = NL THEN w + t + r + 1 ELSE NoMatch

\* ([^\n]|\n[^\n])+ or ([^`\n]|\n[^`\n])+ spans s[a..b]: it is not empty and
\* every newline in it is followed, inside it, by a character that is none
SpanOk(s, a, b) ==
    /\ a <= b
    /\ \A p \in a..b : s[p] = NL => (p < b /\ s[p + 1] # NL)

\* ``([^\n]|\n[^\n])+``(\n-+\n)?   (the longest of the possible matches)
DoubleBacktick(s, i) ==
    LET ends == {j \in (i + 3)..(Len(s) - 1) :
                    /\ s[j] = BT /\ s[j + 1] = BT
                    /\ SpanOk(s, i + 2, j - 1)}
    IN  IF Lit(s, i, <<BT, BT>>) /\ ends # {}
        THEN Max({(j + 2 - i) + Underline(s, j + 2) : j \in ends})
        ELSE NoMatch

\* `([^`\n]|\n[^`\n])+`(\n-+\n)?
SingleBacktick(s, i) ==
    LET k == Run(s, i + 1, {BT}, TRUE)
    IN  IF At(s, i) = BT /\ k >= 1 /\ At(s, i + 1 + k) = BT
           /\ SpanOk(s, i + 1, i + k)
        THEN k + 2 + Underline(s, i + k + 2)
        ELSE NoMatch

\* \[\[([^]]+)\]\](\n-+\n)?
Wikilink(s, i) ==
    LET k == Run(s, i + 2, {"]"}, TRUE)
    IN  IF Lit(s, i, <<"[", "[">>) /\ k >= 1 /\ Lit(s, i + 2 + k, <<"]", "]">>)
        THEN k + 4 + Underline(s, i + k + 4)
        ELSE NoMatch

WikilinkGroup1(s, i) == SubSeq(s, i + 2, i + 1 + Run(s, i + 2, {"]"}, TRUE))

\* [ \t]*\(@[a-zA-Z0-9_-]*\)(\n-+\n)?
ExampleChars == Lower \cup Upper \cup Digit \cup {"_", "-"}
NumberedExample(s, i) ==
    LET w == Run(s, i, Blank, FALSE)
        k == Run(s, i + w + 2, ExampleChars, FALSE)
    IN  IF Lit(s, i + w, <<"(", "@">>) /\ At(s, i + w + 2 + k) = ")"
        THEN w + k + 3 + Underline(s, i + w + k + 3)
        ELSE NoMatch

\* <w>([^@> \t\n]|"[^@>\t\n]*")+(\.([^@> \t\n]|"[^@>\t\n]"))*@(\n-+\n)?
\* Neither alternative matches @, so the local part ends at the first @; it
\* is a sequence of the units iff it is not empty, holds no > \t \n, and every
\* space in it has a double quote before it and one after it.
EmailLocalOk(s, a, b) ==
    /\ a <= b
    /\ \A p \in a..b : s[p] \notin {">", TAB, NL}
    /\ \A p \in a..b : s[p] = " " =>
           /\ \E q \in a..(p - 1) : s[q] = DQ
           /\ \E q \in (p + 1)..b : s[q] = DQ
Email(s, i, w) ==
    LET n == Len(w)
        k == Run(s, i + n, {"@"}, TRUE)
    IN  IF Lit(s, i, w) /\ At(s, i + n + k) = "@"
           /\ EmailLocalOk(s, i + n, i + n + k - 1)
        THEN n + k + 1 + Underline(s, i + n + k + 1)
        ELSE NoMatch

\* @([a-zA-Z0-9_][a-zA-Z0-9_:.#$%&-+?<>~/]*)(\n-+\n)?
\* In the bracket expression &-+ is the range 0x26..0x2B: & ' ( ) * +
CitekeyStart == Lower \cup Upper \cup Digit \cup {"_"}
CitekeyChars == CitekeyStart \cup {":", ".", "#", "$", "%",
                                   "&", "'", "(", ")", "*", "+",
                                   "?", "<", ">", "~", "/"}
CitationKeyLen(s, i) == 1 + Run(s, i + 2, CitekeyChars, FALSE)
Citation(s, i) ==
    IF At(s, i) = "@" /\ At(s, i + 1) \in CitekeyStart
    THEN 1 + CitationKeyLen(s, i) + Underline(s, i + 1 + CitationKeyLen(s, i))
    ELSE NoMatch

CitationGroup1(s, i) == SubSeq(s, i + 1, i + CitationKeyLen(s, i))

\* \\[^\n](\n-+\n)?
Escape(s, i) ==
    IF At(s, i) = BS /\ InClass(At(s, i + 1), {NL}, TRUE)
    THEN 2 + Underline(s, i + 2)
    ELSE NoMatch

\* [[<`mn@\\](\n-+\n)?
SpecialChars == {"[", "<", BT, "m", "n", "@", BS}
Special(s, i) ==
    IF At(s, i) \in SpecialChars THEN 1 + Underline(s, i + 1) ELSE NoMatch

\* [^[<`mn@\\\n]+(\n-+\n)?
Plain(s, i) ==
    LET k == Run(s, i, SpecialChars \cup {NL}, TRUE)
    IN  IF k >= 1 THEN k + Underline(s, i + k) ELSE NoMatch

\*  {0,3}[^ \t\n][^\n]*\n
VerbatimEnd(s, i) ==
    LET sp == Run(s, i, {" "}, FALSE)
        k == Run(s, i + sp + 1, {NL}, TRUE)
    IN  IF sp <= 3 /\ InClass(At(s, i + sp), {" ", TAB, NL}, TRUE)
           /\ At(s, i + sp + 1 + k) = NL
        THEN sp + k + 2
        ELSE NoMatch

\* <w>
Literal(s, i, w) == IF Lit(s, i, w) THEN Len(w) ELSE NoMatch

\* [ \t]*\n
BlankLine(s, i) ==
    LET w == Run(s, i, Blank, FALSE)
    IN  IF At(s, i + w) = NL THEN w + 1 ELSE NoMatch

\* --[ \t]*>(\n-+\n)?
CommentClose(s, i) ==
    LET w == Run(s, i + 2, Blank, FALSE)
    IN  IF Lit(s, i, <<"-", "-">>) /\ At(s, i + 2 + w) = ">"
        THEN w + 3 + Underline(s, i + w + 3)
        ELSE NoMatch

\* [^-]+ and -+
OneOrMore(s, i, C, neg) ==
    LET k == Run(s, i, C, neg) IN IF k >= 1 THEN k ELSE NoMatch

(***************************************************************************)
(* The pattern tables of initializeZettelMarkdownParser.  A pattern is its *)
(* regular expression (re), the kind letter of the tag it makes ("" when   *)
(* it makes none), and its flags: the table action (tenter, tleave, tquit; *)
(* an unknown flag such as {quit} is ignored), _advanceTo=0start, and the  *)
(* boundary of the Yaml guest area it sets.                                *)
(***************************************************************************)
Pat(re, letter, action, to, advanceTo, guest) ==
    [re |-> re, letter |-> letter, action |-> action, to |-> to,
     advanceTo |-> advanceTo, guest |-> guest]

Skip(re) == Pat(re, "", "nop", "", "0end", "")

MainTable == <<
    Pat("metadataOpen", "", "enter", "metadata", "0end", "0start"),
    Pat("tabSpaceLine", "", "enter", "verbatim", "0start", ""),
    Pat("tabLine", "", "enter", "verbatim", "0start", ""),
    Pat("tildeOpen", "", "enter", "fencedcode", "0end", ""),
    Pat("backtickOpen", "", "enter", "backtickcode", "0end", ""),
    Skip("doubleBacktick"),
    Skip("singleBacktick"),
    Pat("commentOpen", "", "enter", "comment", "0end", ""),
    Pat("wikilink", "w", "nop", "", "0end", ""),
    Skip("numberedExample"),
    Skip("email"),
    Skip("mailto"),
    Pat("citation", "c", "nop", "", "0end", ""),
    Skip("escape"),
    Skip("special"),
    Skip("plain"),
    Skip("line"),
    Pat("partial", "", "quit", "", "0end", "") >>

RestTable == <<
    Skip("line"),
    Pat("partial", "", "quit", "", "0end", "") >>

MetadataTable == <<
    Pat("metadataOpen", "", "leave", "", "0end", "0end"),
    Pat("metadataDots", "", "leave", "", "0end", "0end"),
    Skip("line"),
    Pat("partial", "", "quit", "", "0end", "") >>

\* variant: the line that ends the block is consumed by the verbatim table
VerbatimTableConsume == <<
    Pat("verbatimEnd", "", "leave", "", "0end", ""),
    Skip("fourSpaceLine"),
    Skip("fourSpacePartial"),
    Skip("tabLine"),
    Skip("tabPartial"),
    Skip("blankLine"),
    Skip("blankPartial") >>

\* variant: the line that ends the block enters main instead of leaving
VerbatimTableEnter == <<
    Pat("verbatimEnd", "", "enter", "main", "0start", ""),
    Skip("fourSpaceLine"),
    Skip("fourSpacePartial"),
    Skip("tabLine"),
    Skip("tabPartial"),
    Skip("blankLine"),
    Skip("blankPartial") >>

VerbatimTable == <<
    Pat("verbatimEnd", "", "leave", "", "0start", ""),
    Skip("fourSpaceLine"),
    Skip("fourSpacePartial"),
    Skip("tabLine"),
    Skip("tabPartial"),
    Skip("blankLine"),
    Skip("blankPartial") >>

FencedcodeTable == <<
    Pat("tildeClose", "", "leave", "", "0end", ""),
    Skip("line"),
    Pat("partial", "", "quit", "", "0end", "") >>

\* variant: the end of input leaves the block instead of stopping the scan
BacktickcodeTableLeave == <<
    Pat("backtickClose", "", "leave", "", "0end", ""),
    Skip("line"),
    Pat("partial", "", "leave", "", "0end", "") >>

BacktickcodeTable == <<
    Pat("backtickClose", "", "leave", "", "0end", ""),
    Skip("line"),
    Pat("partial", "", "quit", "", "0end", "") >>

\* variant: the wiki link pattern is also declared for the comment table
CommentTableLinks == <<
    Pat("commentClose", "", "leave", "", "0end", ""),
    Pat("wikilink", "w", "nop", "", "0end", ""),
    Skip("nonDashes"),
    Skip("dashes") >>

CommentTable == <<
    Pat("commentClose", "", "leave", "", "0end", ""),
    Skip("nonDashes"),
    Skip("dashes") >>

Tables == [main |-> MainTable, rest |-> RestTable, metadata |-> MetadataTable,
           verbatim |-> VerbatimTable, fencedcode |-> FencedcodeTable,
           backtickcode |-> BacktickcodeTable, comment |-> CommentTable]

TableNames == DOMAIN Tables

FourSpaces == <<" ", " ", " ", " ">>

\* regexec of the pattern at position i of s: the length of the match
Match(re, s, i) ==
    CASE re = "metadataOpen"     -> MarkerLine(s, i, <<"-", "-", "-">>)
      [] re = "metadataDots"     -> MarkerLine(s, i, <<".", ".", ".">>)
      [] re = "tabSpaceLine"     -> PrefixLine(s, i, <<TAB, " ">>)
      [] re = "tabLine"          -> PrefixLine(s, i, <<TAB>>)
      [] re = "tabPartial"       -> PrefixPartial(s, i, <<TAB>>)
      [] re = "fourSpaceLine"    -> PrefixLine(s, i, FourSpaces)
      [] re = "fourSpacePartial" -> PrefixPartial(s, i, FourSpaces)
      [] re = "tildeOpen"        -> FenceOpen(s, i, "~")
      [] re = "tildeClose"       -> FenceClose(s, i, "~")
      [] re = "backtickOpen"     -> FenceOpen(s, i, BT)
      [] re = "backtickClose"    -> FenceClose(s, i, BT)
      [] re = "doubleBacktick"   -> DoubleBacktick(s, i)
      [] re = "singleBacktick"   -> SingleBacktick(s, i)
      [] re = "commentOpen"      -> Literal(s, i, <<"<", "!", "-", "-">>)
      [] re = "commentClose"     -> CommentClose(s, i)
      [] re = "wikilink"         -> Wikilink(s, i)
      [] re = "numberedExample"  -> NumberedExample(s, i)
      [] re = "email"            -> Email(s, i, <<"<">>)
      [] re = "mailto"           -> Email(s, i, <<"m", "a", "i", "l", "t", "o", ":">>)
      [] re = "citation"         -> Citation(s, i)
      [] re = "escape"           -> Escape(s, i)
      [] re = "special"          -> Special(s, i)
      [] re = "plain"            -> Plain(s, i)
      [] re = "line"             -> PrefixLine(s, i, <<>>)
      [] re = "partial"          -> PrefixPartial(s, i, <<>>)
      [] re = "verbatimEnd"      -> VerbatimEnd(s, i)
      [] re = "blankLine"        -> BlankLine(s, i)
      [] re = "blankPartial"     -> Run(s, i, Blank, FALSE)
      [] re = "nonDashes"        -> OneOrMore(s, i, {"-"}, TRUE)
      [] re = "dashes"           -> OneOrMore(s, i, {"-"}, FALSE)

(***************************************************************************)
(* Tags.  A tag of the cork queue carries the parser that made it, its     *)
(* kind and role (by name, "" for no role), its name and the two parser    *)
(* fields identifier and title that zmClearCorkStack and                   *)
(* zmClearRefCorkStack attach later.  A C string that may be NULL is       *)
(* <<>> (NULL) or <<v>>.                                                   *)
(***************************************************************************)
NULL == <<>>
Str(v) == <<v>>

Tag(lang, kindName, roleName, name) ==
    [lang |-> lang, kind |-> kindName, role |-> roleName, name |-> name,
     identifier |-> NULL, title |-> NULL]

\* the tag a Main pattern makes from its match at position i of s
\* (name \1 with kind w and role ref, name @\1 with kind c and role bibliography)
MarkdownTag(pat, s, i) ==
    IF pat.letter = "w"
    THEN Tag("ZettelMarkdown", "wikilink", "ref", Concat(WikilinkGroup1(s, i)))
    ELSE Tag("ZettelMarkdown", "citekey", "bibliography",
             "@" \o Concat(CitationGroup1(s, i)))

(***************************************************************************)
(* The multi-table regex engine (main/lregex.c, not part of the parsers):  *)
(* the patterns of the current table are tried in order at the current     *)
(* offset and the first one that matches wins.  Its tag is made, the       *)
(* offset advances to the end of the match (to its start with              *)
(* _advanceTo=0start), and the table action is taken: tenter pushes the    *)
(* current table, tleave pops, tquit stops.  The scan also stops when no   *)
(* pattern of the table matches.                                           *)
(***************************************************************************)
\* the first pattern of the table, from the p-th on, that matches; 0 when none
RECURSIVE FirstMatchFrom(_, _, _, _)
FirstMatchFrom(tbl, s, i, p) ==
    IF p > Len(Tables[tbl]) THEN 0
    ELSE IF Match(Tables[tbl][p].re, s, i) # NoMatch THEN p
    ELSE FirstMatchFrom(tbl, s, i, p + 1)

FirstMatch(tbl, s, i) == FirstMatchFrom(tbl, s, i, 1)

\* the effect of pattern pat having matched len characters at the offset
Matched(pat, len) ==
    /\ store' = IF pat.letter # ""
                THEN Append(store, MarkdownTag(pat, input, offset + 1))
                ELSE store
    /\ offset' = IF pat.advanceTo = "0start" THEN offset ELSE offset + len
    /\ guestStart' = IF pat.guest = "0start" THEN offset
                     ELSE IF pat.guest = "0end" THEN NoMatch
                     ELSE guestStart
    /\ promises' = IF pat.guest = "0end" /\ guestStart # NoMatch
                   THEN Append(promises, <<guestStart, offset + len>>)
                   ELSE promises
    /\ CASE pat.action = "enter" ->
              /\ tstack' = <<table>> \o tstack
              /\ table' = pat.to
              /\ scanning' = TRUE
         [] pat.action = "leave" ->
              IF tstack = <<>>
              THEN /\ scanning' = FALSE
                   /\ UNCHANGED <<table, tstack>>
              ELSE /\ table' = Head(tstack)
                   /\ tstack' = Tail(tstack)
                   /\ scanning' = TRUE
         [] pat.action = "quit" ->
              /\ scanning' = FALSE
              /\ UNCHANGED <<table, tstack>>
         [] OTHER ->
              /\ scanning' = TRUE
              /\ UNCHANGED <<table, tstack>>

ScanStep ==
    /\ scanning
    /\ \E p \in {FirstMatch(table, input, offset + 1)} :
          IF p = 0
          THEN /\ scanning' = FALSE
               /\ UNCHANGED <<offset, table, tstack, guestStart, promises, store>>
          ELSE \E len \in {Match(Tables[table][p].re, input, offset + 1)} :
                  Matched(Tables[table][p], len)
    /\ UNCHANGED <<input, zmVars, fieldEnabled, prefixes, render>>

(***************************************************************************)
(* The ZettelMetadata parser: enumerations and tables.                     *)
(***************************************************************************)
R_NONE == -1
R_INDEX == 0
R_BIBLIOGRAPHY == 0
R_REFERENCES == 0

K_NONE == -1
K_ID == 0
K_TITLE == 1
K_KEYWORD == 2
K_BIBLIOGRAPHY == 3
K_CITEKEY == 4
K_REFTITLE == 5

S_NONE == 0
S_KEY == 1
S_REFERENCE == 2
S_VALUE == 3

\* ZettelMetadataKindTable with the role tables attached to its entries;
\* entry k of the C table is entry k + 1 here
ZettelMetadataKindTable == <<
    [enabled |-> TRUE, name |-> "id", roles |-> <<>>],
    [enabled |-> TRUE, name |-> "title", roles |-> <<>>],
    [enabled |-> TRUE, name |-> "keyword",
     roles |-> <<[enabled |-> TRUE, name |-> "index"]>>],
    [enabled |-> TRUE, name |-> "bibliography",
     roles |-> <<[enabled |-> TRUE, name |-> "bibliography"]>>],
    [enabled |-> TRUE, name |-> "citekey",
     roles |-> <<[enabled |-> TRUE, name |-> "reference"]>>],
    [enabled |-> TRUE, name |-> "reftitle", roles |-> <<>>] >>

\* the prefix strings; NULL (not set) unless a parameter sets them
zmTitlePrefix == prefixes.title
zmReftitlePrefix == prefixes.reftitle
zmKeywordPrefix == prefixes.keyword
zmBibliographyPrefix == prefixes.bibliography

\* strlen of a prefix that may be NULL, and strcpy/strcat of it and the value
PrefixSize(prefix) == IF prefix = NULL THEN 0 ELSE Len(prefix[1])
Prepend(prefix, value) == IF PrefixSize(prefix) > 0 THEN prefix[1] \o value ELSE value

\* the YAML tokens the callback tells apart; every other token is OTHER
MappingStartTokens == {"BLOCK_MAPPING_START", "FLOW_MAPPING_START"}
SequenceStartTokens == {"BLOCK_SEQUENCE_START", "FLOW_SEQUENCE_START"}
FlushTokens == {"STREAM_END", "DOCUMENT_START", "DOCUMENT_END"}
OtherTokens == {"VALUE", "BLOCK_ENTRY", "FLOW_ENTRY"}

(***************************************************************************)
(* zmPushTag .. zmMakeTagEntry.  The operators take the subparser's fields *)
(* they read as the current values of the variables.                       *)
(***************************************************************************)
\* variant: the index pushed is the one before the new tag's
zmPushTagPrevious(corkIndex) ==
    IF reference
    THEN <<corkStack, <<corkIndex - 1>> \o refCorkStack>>
    ELSE <<<<corkIndex - 1>> \o corkStack, refCorkStack>>

\* zmPushTag: the stacks after corkIndex is pushed, <<corkStack, refCorkStack>>
zmPushTag(corkIndex) ==
    IF reference
    THEN <<corkStack, <<corkIndex>> \o refCorkStack>>
    ELSE <<<<corkIndex>> \o corkStack, refCorkStack>>

\* attachParserFieldToCorkEntry for the fields F_IDENTIFIER and F_TITLE of
\* every entry of a stack: the queue after the stack has been cleared
Attach(queue, stack, identifier, ttl) ==
    [n \in DOMAIN queue |->
        IF \E k \in DOMAIN stack : stack[k] = n
        THEN [queue[n] EXCEPT
                !.identifier =
                    IF identifier # NULL
                       /\ (fieldEnabled.identifier \/ fieldEnabled.summary)
                    THEN identifier ELSE @,
                !.title =
                    IF ttl # NULL /\ (fieldEnabled.title \/ fieldEnabled.summary)
                    THEN ttl ELSE @]
        ELSE queue[n]]

\* variant: only the top of the stack is annotated
zmClearCorkStackTop(queue, identifier, ttl) ==
    Attach(queue, IF corkStack = <<>> THEN <<>> ELSE <<Head(corkStack)>>,
           identifier, ttl)

\* zmClearCorkStack with the given id and title: the queue afterwards
\* (the stack is empty afterwards)
zmClearCorkStack(queue, identifier, ttl) == Attach(queue, corkStack, identifier, ttl)

\* zmClearRefCorkStack with the given citekey and reftitle
zmClearRefCorkStack(queue, key, ttl) == Attach(queue, refCorkStack, key, ttl)

\* variant: a keyword gets the title prefix
TagNameTitlePrefix(value) ==
    CASE kind = K_TITLE -> Prepend(zmTitlePrefix, value)
      [] kind = K_KEYWORD -> Prepend(zmTitlePrefix, value)
      [] kind = K_BIBLIOGRAPHY -> Prepend(zmBibliographyPrefix, value)
      [] kind = K_CITEKEY -> "@" \o value
      [] kind = K_REFTITLE -> Prepend(zmReftitlePrefix, value)
      [] OTHER -> value

\* the name zmMakeTagEntry gives the tag of a scalar value
TagName(value) ==
    CASE kind = K_TITLE -> Prepend(zmTitlePrefix, value)
      [] kind = K_KEYWORD -> Prepend(zmKeywordPrefix, value)
      [] kind = K_BIBLIOGRAPHY -> Prepend(zmBibliographyPrefix, value)
      [] kind = K_CITEKEY -> "@" \o value
      [] kind = K_REFTITLE -> Prepend(zmReftitlePrefix, value)
      [] OTHER -> value

\* whether zmMakeTagEntry makes a tag (tag.kindIndex # K_NONE after the
\* initTagEntry / initRefTagEntry choice); kind is a valid index
MakesTag ==
    /\ ZettelMetadataKindTable[kind + 1].enabled
    /\ \/ role = R_NONE
       \/ /\ role < Len(ZettelMetadataKindTable[kind + 1].roles)
          /\ ZettelMetadataKindTable[kind + 1].roles[role + 1].enabled

RoleName == IF role = R_NONE THEN ""
            ELSE ZettelMetadataKindTable[kind + 1].roles[role + 1].name

\* zmMakeTagEntry: <<queue, corkStack, refCorkStack>> afterwards
zmMakeTagEntry(value) ==
    IF MakesTag
    THEN <<Append(store, Tag("ZettelMetadata", ZettelMetadataKindTable[kind + 1].name,
                             RoleName, TagName(value))),
           zmPushTag(Len(store) + 1)[1], zmPushTag(Len(store) + 1)[2]>>
    ELSE <<store, corkStack, refCorkStack>>

(***************************************************************************)
(* The tag name encoders: the renderers of the fields encodedTagName       *)
(* (ZettelMarkdown) and tag (ZettelMetadata).  A name is the sequence of   *)
(* its bytes, 1..255, without the terminating NUL.  A byte of 0x80 or more *)
(* is below 0x21 as a signed char and above 0x7E as an unsigned char: the  *)
(* test escapes it either way, and the two nibbles taken with & 0x0F are   *)
(* those of the byte.                                                      *)
(***************************************************************************)
Min(a, b) == IF a < b THEN a ELSE b

\* *c for the pointer c at 0-based offset i of the string s
CharAt(s, i) == IF i + 1 \in DOMAIN s THEN s[i + 1] ELSE 0

\* static char hex[] = "0123456789abcdef"
hex == <<48, 49, 50, 51, 52, 53, 54, 55, 56, 57, 97, 98, 99, 100, 101, 102>>

PERCENT == 37
BACKSLASH == 92
EXCLAMATION == 33

\* strncmp (c, prefix, size) == 0, for size = strlen (prefix)
StartsWith(c, prefix) ==
    /\ Len(prefix) <= Len(c)
    /\ \A i \in 1..Len(prefix) : c[i] = prefix[i]

\* variant: the escape character itself is copied
RECURSIVE zPercentEncodeKeepPercent(_, _, _)
zPercentEncodeKeepPercent(string, length, force) ==
    IF Min(length, Len(string)) <= 0 THEN <<>>
    ELSE LET c == Head(string)
         IN  (IF force \/ c < 33 \/ c > 126
              THEN <<PERCENT, hex[(c \div 16) + 1], hex[(c % 16) + 1]>>
              ELSE <<c>>)
             \o zPercentEncodeKeepPercent(Tail(string), Min(length, Len(string)) - 1, force)

\* variant: the lower limit 0x21 is escaped as well
RECURSIVE zPercentEncodeLimit(_, _, _)
zPercentEncodeLimit(string, length, force) ==
    IF Min(length, Len(string)) <= 0 THEN <<>>
    ELSE LET c == Head(string)
         IN  (IF force \/ c <= 33 \/ c > 126 \/ c = PERCENT
              THEN <<PERCENT, hex[(c \div 16) + 1], hex[(c % 16) + 1]>>
              ELSE <<c>>)
             \o zPercentEncodeLimit(Tail(string), Min(length, Len(string)) - 1, force)

\* zPercentEncode: the bytes written for the first length bytes of string
RECURSIVE zPercentEncode(_, _, _)
zPercentEncode(string, length, force) ==
    IF Min(length, Len(string)) <= 0 THEN <<>>
    ELSE LET c == Head(string)
         IN  (IF force \/ c < 33 \/ c > 126 \/ c = PERCENT
              THEN <<PERCENT, hex[(c \div 16) + 1], hex[(c % 16) + 1]>>
              ELSE <<c>>)
             \o zPercentEncode(Tail(string), Min(length, Len(string)) - 1, force)

\* zRenderFieldTag: what is appended to the buffer for the tag name c
zRenderFieldTag(c) ==
    LET length == 3 * Len(c) + 1
        first == IF CharAt(c, 0) = EXCLAMATION THEN zPercentEncode(c, 1, TRUE) ELSE <<>>
        rest == IF CharAt(c, 0) = EXCLAMATION THEN Tail(c) ELSE c
    IN  first \o zPercentEncode(rest, length - Len(first), FALSE)

\* zmStringEscape: the bytes written for the first length bytes of string
RECURSIVE zmStringEscape(_, _, _)
zmStringEscape(string, length, force) ==
    IF Min(length, Len(string)) <= 0 THEN <<>>
    ELSE LET c == Head(string)
         IN  (IF force \/ c < 33 \/ c > 126 \/ c = BACKSLASH
              THEN <<BACKSLASH, 120, hex[(c \div 16) + 1], hex[(c % 16) + 1]>>
              ELSE <<c>>)
             \o zmStringEscape(Tail(string), Min(length, Len(string)) - 1, force)

\* the prefix of the kind k, and the prefixes of the other kinds
OwnPrefix(k) ==
    CASE k = K_TITLE -> zmTitlePrefix
      [] k = K_REFTITLE -> zmReftitlePrefix
      [] k = K_KEYWORD -> zmKeywordPrefix
      [] k = K_BIBLIOGRAPHY -> zmBibliographyPrefix
      [] OTHER -> NULL

ForeignPrefixes(k) ==
    {zmTitlePrefix, zmReftitlePrefix, zmKeywordPrefix, zmBibliographyPrefix}
        \ {OwnPrefix(k)}

\* zmRenderFieldTag: what is appended to the buffer for the tag name c of kind k
zmRenderFieldTag(k, c) ==
    IF k \in {K_TITLE, K_REFTITLE, K_KEYWORD, K_BIBLIOGRAPHY}
    THEN LET length == 3 * Len(c) + 1
             own == PrefixSize(OwnPrefix(k)) > 0 /\ StartsWith(c, OwnPrefix(k)[1])
             foreign == \E f \in ForeignPrefixes(k) :
                            PrefixSize(f) > 0 /\ StartsWith(c, f[1])
             head == IF own THEN OwnPrefix(k)[1]
                     ELSE IF foreign THEN zmStringEscape(c, 1, TRUE)
                     ELSE <<>>
             c1 == IF own THEN SubSeq(c, PrefixSize(OwnPrefix(k)) + 1, Len(c))
                   ELSE IF foreign THEN Tail(c)
                   ELSE c
             bang == IF head = <<>> /\ CharAt(c1, 0) = EXCLAMATION
                     THEN zmStringEscape(c1, 1, TRUE) ELSE <<>>
             c2 == IF bang # <<>> THEN Tail(c1) ELSE c1
         IN  head \o bang \o zmStringEscape(c2, length - Len(head \o bang), FALSE)
    ELSE c

\* the name zmMakeTagEntry gives the tag of the scalar value (bytes) of kind k,
\* and the names the Main patterns w and c give their tags
zmTagBytes(k, value) ==
    IF k = K_CITEKEY THEN <<64>> \o value ELSE Prepend(OwnPrefix(k), value)

(***************************************************************************)
(* The token source.  The Yaml parser (not part of the parsers) calls      *)
(* zmNewTokenCallback once per token.  pending is the rest of the token    *)
(* stream of the area the Yaml parser is running on.                       *)
(***************************************************************************)
Token(type, value) == [type |-> type, value |-> value]

Deliver(tok) ==
    /\ ~crashed
    /\ pending # <<>>
    /\ Head(pending) = tok
    /\ pending' = Tail(pending)

TopLevelKeyNames == {"id", "title", "keywords", "bibliography", "nocite", "references"}

\* history: whether the last token was a KEY token, whether the stream is
\* inside the key/value pair of an unrecognized top-level key, and the tags
\* made since the last flush of the document-level stack
Hist(tok, newMapping, newStore) ==
    [afterKey |-> tok.type = "KEY",
     unknownPair |->
        IF tok.type = "SCALAR" /\ hist.afterKey /\ mapping = 1 /\ sequence = 0
        THEN tok.value \notin TopLevelKeyNames
        ELSE IF (tok.type = "KEY" /\ mapping = 1) \/ newMapping < 1
                \/ tok.type \in FlushTokens \cup {"STREAM_START"}
        THEN FALSE
        ELSE hist.unknownPair,
     sinceFlush |->
        IF tok.type \in FlushTokens \cup {"STREAM_START"} THEN {}
        ELSE hist.sinceFlush \cup ((DOMAIN newStore) \ (DOMAIN store))]

\* the callback leaves the scanner and the options alone
ZmFrame == UNCHANGED <<scanVars, fieldEnabled, prefixes, render>>

(***************************************************************************)
(* zmNewTokenCallback, one action per case of its switch.                  *)
(***************************************************************************)
\* variant: zmResetSubparser leaves the identifier as it is
StreamStartKeepId(tok) ==
        /\ tok.type = "STREAM_START"
        /\ Deliver(tok)
        /\ kind' = K_NONE
        /\ role' = R_NONE
        /\ scalarType' = S_NONE
        /\ blockTypeStack' = <<>>
        /\ reference' = FALSE
        /\ mapping' = 0
        /\ sequence' = 0
        /\ id' = id
        /\ title' = NULL
        /\ citekey' = NULL
        /\ reftitle' = NULL
        /\ store' = zmClearRefCorkStack(zmClearCorkStack(store, id, NULL), NULL, NULL)
        /\ corkStack' = <<>>
        /\ refCorkStack' = <<>>
        /\ hist' = Hist(tok, 0, store)
        /\ UNCHANGED crashed
        /\ ZmFrame

\* case YAML_STREAM_START_TOKEN: zmResetSubparser.  The four strings are
\* freed before the stacks are cleared, so the clearing attaches nothing.
StreamStart(tok) ==
        /\ tok.type = "STREAM_START"
        /\ Deliver(tok)
        /\ kind' = K_NONE
        /\ role' = R_NONE
        /\ scalarType' = S_NONE
        /\ blockTypeStack' = <<>>
        /\ reference' = FALSE
        /\ mapping' = 0
        /\ sequence' = 0
        /\ id' = NULL
        /\ title' = NULL
        /\ citekey' = NULL
        /\ reftitle' = NULL
        /\ store' = zmClearRefCorkStack(zmClearCorkStack(store, NULL, NULL), NULL, NULL)
        /\ corkStack' = <<>>
        /\ refCorkStack' = <<>>
        /\ hist' = Hist(tok, 0, store)
        /\ UNCHANGED crashed
        /\ ZmFrame

\* variant: zmClearCorkStack annotates the tags of its stack and leaves them on it
FlushNoPop(tok) ==
        /\ tok.type \in FlushTokens
        /\ Deliver(tok)
        /\ store' = zmClearRefCorkStack(zmClearCorkStack(store, id, title),
                                        citekey, reftitle)
        /\ corkStack' = corkStack
        /\ refCorkStack' = <<>>
        /\ hist' = Hist(tok, mapping, store)
        /\ UNCHANGED <<kind, role, scalarType, blockTypeStack, reference, mapping,
                       sequence, id, title, citekey, reftitle, crashed>>
        /\ ZmFrame

\* case YAML_STREAM_END_TOKEN, YAML_DOCUMENT_START_TOKEN, YAML_DOCUMENT_END_TOKEN
Flush(tok) ==
        /\ tok.type \in FlushTokens
        /\ Deliver(tok)
        /\ store' = zmClearRefCorkStack(zmClearCorkStack(store, id, title),
                                        citekey, reftitle)
        /\ corkStack' = <<>>
        /\ refCorkStack' = <<>>
        /\ hist' = Hist(tok, mapping, store)
        /\ UNCHANGED <<kind, role, scalarType, blockTypeStack, reference, mapping,
                       sequence, id, title, citekey, reftitle, crashed>>
        /\ ZmFrame

\* case YAML_BLOCK_MAPPING_START_TOKEN, YAML_FLOW_MAPPING_START_TOKEN
MappingStart(tok) ==
        /\ tok.type \in MappingStartTokens
        /\ Deliver(tok)
        /\ blockTypeStack' = <<tok.type>> \o blockTypeStack
        /\ mapping' = mapping + 1
        /\ hist' = Hist(tok, mapping + 1, store)
        /\ UNCHANGED <<kind, role, scalarType, reference, sequence, id, title,
                       citekey, reftitle, corkStack, refCorkStack, store, crashed>>
        /\ ZmFrame

\* variant: the token type of a sequence is not pushed
SequenceStartNoPush(tok) ==
        /\ tok.type \in SequenceStartTokens
        /\ Deliver(tok)
        /\ blockTypeStack' = blockTypeStack
        /\ sequence' = sequence + 1
        /\ hist' = Hist(tok, mapping, store)
        /\ UNCHANGED <<kind, role, scalarType, reference, mapping, id, title,
                       citekey, reftitle, corkStack, refCorkStack, store, crashed>>
        /\ ZmFrame

\* case YAML_BLOCK_SEQUENCE_START_TOKEN, YAML_FLOW_SEQUENCE_START_TOKEN
SequenceStart(tok) ==
        /\ tok.type \in SequenceStartTokens
        /\ Deliver(tok)
        /\ blockTypeStack' = <<tok.type>> \o blockTypeStack
        /\ sequence' = sequence + 1
        /\ hist' = Hist(tok, mapping, store)
        /\ UNCHANGED <<kind, role, scalarType, reference, mapping, id, title,
                       citekey, reftitle, corkStack, refCorkStack, store, crashed>>
        /\ ZmFrame

\* zmPopTokenType on an empty stack reads through a NULL pointer
PopCrash(tok) ==
    /\ crashed' = TRUE
    /\ hist' = Hist(tok, mapping, store)
    /\ UNCHANGED <<kind, role, scalarType, blockTypeStack, reference, mapping,
                   sequence, id, title, citekey, reftitle, corkStack, refCorkStack,
                   store>>

\* variant: the end of a block mapping does not clear the reference stack
BlockEndKeep(tok) ==
        /\ tok.type = "BLOCK_END"
        /\ Deliver(tok)
        /\ IF blockTypeStack = <<>> THEN PopCrash(tok)
           ELSE /\ blockTypeStack' = Tail(blockTypeStack)
                /\ IF Head(blockTypeStack) = "BLOCK_MAPPING_START"
                   THEN /\ mapping' = mapping - 1
                        /\ sequence' = sequence
                        /\ hist' = Hist(tok, mapping - 1, store)
                   ELSE /\ sequence' = sequence - 1
                        /\ mapping' = mapping
                        /\ hist' = Hist(tok, mapping, store)
                /\ UNCHANGED <<kind, role, scalarType, reference, id, title, citekey,
                               reftitle, corkStack, crashed, store, refCorkStack>>
        /\ ZmFrame

\* case YAML_BLOCK_END_TOKEN
BlockEnd(tok) ==
        /\ tok.type = "BLOCK_END"
        /\ Deliver(tok)
        /\ IF blockTypeStack = <<>> THEN PopCrash(tok)
           ELSE /\ blockTypeStack' = Tail(blockTypeStack)
                /\ IF Head(blockTypeStack) = "BLOCK_MAPPING_START"
                   THEN /\ mapping' = mapping - 1
                        /\ sequence' = sequence
                        /\ IF reference /\ mapping - 1 < 2 /\ sequence < 2
                           THEN /\ store' = zmClearRefCorkStack(store, citekey, reftitle)
                                /\ refCorkStack' = <<>>
                           ELSE UNCHANGED <<store, refCorkStack>>
                        /\ hist' = Hist(tok, mapping - 1, store)
                   ELSE /\ sequence' = sequence - 1
                        /\ hist' = Hist(tok, mapping, store)
                        /\ UNCHANGED <<mapping, store, refCorkStack>>
                /\ UNCHANGED <<kind, role, scalarType, reference, id, title, citekey,
                               reftitle, corkStack, crashed>>
        /\ ZmFrame

\* case YAML_FLOW_MAPPING_END_TOKEN
FlowMappingEnd(tok) ==
        /\ tok.type = "FLOW_MAPPING_END"
        /\ Deliver(tok)
        /\ IF blockTypeStack = <<>> THEN PopCrash(tok)
           ELSE /\ blockTypeStack' = Tail(blockTypeStack)
                /\ mapping' = mapping - 1
                /\ IF mapping - 1 < 2 /\ sequence < 2
                   THEN /\ store' = zmClearRefCorkStack(store, citekey, reftitle)
                        /\ refCorkStack' = <<>>
                   ELSE UNCHANGED <<store, refCorkStack>>
                /\ hist' = Hist(tok, mapping - 1, store)
                /\ UNCHANGED <<kind, role, scalarType, reference, sequence, id, title,
                               citekey, reftitle, corkStack, crashed>>
        /\ ZmFrame

\* case YAML_FLOW_SEQUENCE_END_TOKEN
FlowSequenceEnd(tok) ==
        /\ tok.type = "FLOW_SEQUENCE_END"
        /\ Deliver(tok)
        /\ IF blockTypeStack = <<>> THEN PopCrash(tok)
           ELSE /\ blockTypeStack' = Tail(blockTypeStack)
                /\ sequence' = sequence - 1
                /\ hist' = Hist(tok, mapping, store)
                /\ UNCHANGED <<kind, role, scalarType, reference, mapping, id, title,
                               citekey, reftitle, corkStack, refCorkStack, store,
                               crashed>>
        /\ ZmFrame

\* case YAML_KEY_TOKEN
Key(tok) ==
        /\ tok.type = "KEY"
        /\ Deliver(tok)
        /\ IF mapping = 1
           THEN /\ scalarType' = IF sequence = 0 THEN S_KEY ELSE S_NONE
                /\ reference' = FALSE
           ELSE IF reference /\ mapping = 2 /\ sequence < 2
           THEN /\ scalarType' = S_REFERENCE
                /\ UNCHANGED reference
           ELSE UNCHANGED <<scalarType, reference>>
        /\ hist' = Hist(tok, mapping, store)
        /\ UNCHANGED <<kind, role, blockTypeStack, mapping, sequence, id, title,
                       citekey, reftitle, corkStack, refCorkStack, store, crashed>>
        /\ ZmFrame

\* default: a token the switch has no case for
Other(tok) ==
        /\ tok.type \in OtherTokens
        /\ Deliver(tok)
        /\ hist' = Hist(tok, mapping, store)
        /\ UNCHANGED <<kind, role, scalarType, blockTypeStack, reference, mapping,
                       sequence, id, title, citekey, reftitle, corkStack, refCorkStack,
                       store, crashed>>
        /\ ZmFrame

\* variant: an unknown key expects a value too
TopLevelKeyAnyValue(value) ==
    CASE value = "id" ->
           [scalarType |-> S_VALUE, kind |-> K_ID, role |-> R_NONE,
            reference |-> reference]
      [] value = "title" ->
           [scalarType |-> S_VALUE, kind |-> K_TITLE, role |-> R_NONE,
            reference |-> reference]
      [] value = "keywords" ->
           [scalarType |-> S_VALUE, kind |-> K_KEYWORD, role |-> R_INDEX,
            reference |-> reference]
      [] value = "bibliography" ->
           [scalarType |-> S_VALUE, kind |-> K_BIBLIOGRAPHY, role |-> R_BIBLIOGRAPHY,
            reference |-> reference]
      [] value = "nocite" ->
           [scalarType |-> S_VALUE, kind |-> K_CITEKEY, role |-> R_REFERENCES,
            reference |-> reference]
      [] value = "references" ->
           [scalarType |-> S_NONE, kind |-> K_NONE, role |-> R_NONE,
            reference |-> TRUE]
      [] OTHER ->
           [scalarType |-> S_VALUE, kind |-> K_NONE, role |-> R_NONE,
            reference |-> reference]

\* case YAML_SCALAR_TOKEN with scalarType == S_KEY: the fields afterwards
TopLevelKey(value) ==
    CASE value = "id" ->
           [scalarType |-> S_VALUE, kind |-> K_ID, role |-> R_NONE,
            reference |-> reference]
      [] value = "title" ->
           [scalarType |-> S_VALUE, kind |-> K_TITLE, role |-> R_NONE,
            reference |-> reference]
      [] value = "keywords" ->
           [scalarType |-> S_VALUE, kind |-> K_KEYWORD, role |-> R_INDEX,
            reference |-> reference]
      [] value = "bibliography" ->
           [scalarType |-> S_VALUE, kind |-> K_BIBLIOGRAPHY, role |-> R_BIBLIOGRAPHY,
            reference |-> reference]
      [] value = "nocite" ->
           [scalarType |-> S_VALUE, kind |-> K_CITEKEY, role |-> R_REFERENCES,
            reference |-> reference]
      [] value = "references" ->
           [scalarType |-> S_NONE, kind |-> K_NONE, role |-> R_NONE,
            reference |-> TRUE]
      [] OTHER ->
           [scalarType |-> scalarType, kind |-> K_NONE, role |-> R_NONE,
            reference |-> reference]

\* case YAML_SCALAR_TOKEN with scalarType == S_REFERENCE
ReferenceKey(value) ==
    CASE value = "id" ->
           [scalarType |-> S_VALUE, kind |-> K_CITEKEY, role |-> R_NONE,
            reference |-> reference]
      [] value = "title" ->
           [scalarType |-> S_VALUE, kind |-> K_REFTITLE, role |-> R_NONE,
            reference |-> reference]
      [] OTHER ->
           [scalarType |-> scalarType, kind |-> K_NONE, role |-> R_NONE,
            reference |-> reference]

\* the condition under which a scalar is taken as the value of the current key
TakesValue ==
    /\ scalarType = S_VALUE
    /\ (mapping = 1 \/ (reference /\ mapping = 2))

\* variant: the citation key and the reference title are kept without
\* looking at subparser->reference
ScratchAnyScope(value) ==
    IF kind = K_ID THEN <<Str(value), title, citekey, reftitle>>
    ELSE IF kind = K_TITLE THEN <<id, Str(value), citekey, reftitle>>
    ELSE IF kind = K_CITEKEY THEN <<id, title, Str(value), reftitle>>
    ELSE IF kind = K_REFTITLE THEN <<id, title, citekey, Str(value)>>
    ELSE <<id, title, citekey, reftitle>>

\* the four scratch strings after a value scalar: <<id, title, citekey, reftitle>>
Scratch(value) ==
    IF kind = K_ID THEN <<Str(value), title, citekey, reftitle>>
    ELSE IF kind = K_TITLE THEN <<id, Str(value), citekey, reftitle>>
    ELSE IF reference /\ kind = K_CITEKEY THEN <<id, title, Str(value), reftitle>>
    ELSE IF reference /\ kind = K_REFTITLE THEN <<id, title, citekey, Str(value)>>
    ELSE <<id, title, citekey, reftitle>>

\* case YAML_SCALAR_TOKEN
Scalar(tok) ==
    LET value == tok.value
        key == IF scalarType = S_KEY THEN TopLevelKey(value) ELSE ReferenceKey(value)
    IN  /\ tok.type = "SCALAR"
        /\ Deliver(tok)
        /\ IF scalarType \in {S_KEY, S_REFERENCE}
           THEN /\ scalarType' = key.scalarType
                /\ kind' = key.kind
                /\ role' = key.role
                /\ reference' = key.reference
                /\ hist' = Hist(tok, mapping, store)
                /\ UNCHANGED <<id, title, citekey, reftitle, corkStack, refCorkStack,
                               store, crashed>>
           ELSE IF TakesValue
           THEN IF kind = K_NONE
                THEN \* ZettelMetadataKindTable[-1] is read
                     /\ crashed' = TRUE
                     /\ hist' = Hist(tok, mapping, store)
                     /\ UNCHANGED <<scalarType, kind, role, reference, id, title,
                                    citekey, reftitle, corkStack, refCorkStack, store>>
                ELSE /\ id' = Scratch(value)[1]
                     /\ title' = Scratch(value)[2]
                     /\ citekey' = Scratch(value)[3]
                     /\ reftitle' = Scratch(value)[4]
                     /\ store' = zmMakeTagEntry(value)[1]
                     /\ corkStack' = zmMakeTagEntry(value)[2]
                     /\ refCorkStack' = zmMakeTagEntry(value)[3]
                     /\ hist' = Hist(tok, mapping, zmMakeTagEntry(value)[1])
                     /\ UNCHANGED <<scalarType, kind, role, reference, crashed>>
           ELSE /\ hist' = Hist(tok, mapping, store)
                /\ UNCHANGED <<scalarType, kind, role, reference, id, title, citekey,
                               reftitle, corkStack, refCorkStack, store, crashed>>
        /\ UNCHANGED <<blockTypeStack, mapping, sequence>>
        /\ ZmFrame

(***************************************************************************)
(* Inputs.                                                                 *)
(***************************************************************************)

\* the pieces the scanned texts are made of
Fragments == {
    <<"[", "[", "x", "]", "]">>,
    <<"@", "a">>,
    <<NL>>,
    <<"-", "-", "-", NL>>,
    <<BT, BT, BT, NL>>,
    <<"~", "~", "~", NL>>,
    <<"<", "!", "-", "-">>,
    <<"-", "-", ">">>,
    <<TAB>>,
    <<"n", "e", "x", "t", ":">>,
    <<" ", " ", " ", " ">>,
    <<BT>> }

RECURSIVE Flatten(_)
Flatten(ws) == IF ws = <<>> THEN <<>> ELSE Head(ws) \o Flatten(Tail(ws))

Texts == UNION {{Flatten(ws) : ws \in [1..n -> Fragments]} : n \in 0..MaxFrags}

\* The token streams of metadata blocks, as the Yaml scanner emits them.
T(type) == Token(type, "")
S(value) == Token("SCALAR", value)

\* k: v
Pair(k, v) == <<T("KEY"), S(k), T("VALUE"), S(v)>>

\* k: [v1, v2]
FlowSeq(k, v1, v2) ==
    <<T("KEY"), S(k), T("VALUE"), T("FLOW_SEQUENCE_START"), S(v1), T("FLOW_ENTRY"),
      S(v2), T("FLOW_SEQUENCE_END")>>

\* k: followed by the lines - v1 and - v2, not indented
BlockSeq(k, v1, v2) ==
    <<T("KEY"), S(k), T("VALUE"), T("BLOCK_ENTRY"), S(v1), T("BLOCK_ENTRY"), S(v2)>>

\* k: {k1: v1}
FlowMap(k, k1, v1) ==
    <<T("KEY"), S(k), T("VALUE"), T("FLOW_MAPPING_START")>> \o Pair(k1, v1)
    \o <<T("FLOW_MAPPING_END")>>

\* k: followed by the indented lines k1: v1 and k2: v2
BlockMap(k, k1, v1, k2, v2) ==
    <<T("KEY"), S(k), T("VALUE"), T("BLOCK_MAPPING_START")>> \o Pair(k1, v1)
    \o Pair(k2, v2) \o <<T("BLOCK_END")>>

\* one entry of a block list: - id: key, title: ttl on two lines
BlockEntry(key, ttl) ==
    <<T("BLOCK_ENTRY"), T("BLOCK_MAPPING_START")>> \o Pair("id", key)
    \o Pair("title", ttl) \o <<T("BLOCK_END")>>

\* one entry of a flow list: {id: key, title: ttl}
FlowItem(key, ttl) ==
    <<T("FLOW_MAPPING_START")>> \o Pair("id", key) \o <<T("FLOW_ENTRY")>>
    \o Pair("title", ttl) \o <<T("FLOW_MAPPING_END")>>

\* references: with two entries, the list not indented (the scanner emits
\* no BLOCK-SEQUENCE-START for it), indented, and in flow style
RefsIndentless ==
    <<T("KEY"), S("references"), T("VALUE")>> \o BlockEntry("a", "t")
    \o BlockEntry("b", "u")
RefsIndented ==
    <<T("KEY"), S("references"), T("VALUE"), T("BLOCK_SEQUENCE_START")>>
    \o BlockEntry("a", "t") \o BlockEntry("b", "u") \o <<T("BLOCK_END")>>
RefsFlow ==
    <<T("KEY"), S("references"), T("VALUE"), T("FLOW_SEQUENCE_START")>>
    \o FlowItem("a", "t") \o <<T("FLOW_ENTRY")>> \o FlowItem("b", "u")
    \o <<T("FLOW_SEQUENCE_END")>>

\* references: [{id: d}, [{id: e}]]
RefsNested ==
    <<T("KEY"), S("references"), T("VALUE"), T("FLOW_SEQUENCE_START"),
      T("FLOW_MAPPING_START")>> \o Pair("id", "d")
    \o <<T("FLOW_MAPPING_END"), T("FLOW_ENTRY"), T("FLOW_SEQUENCE_START"),
         T("FLOW_MAPPING_START")>> \o Pair("id", "e")
    \o <<T("FLOW_MAPPING_END"), T("FLOW_SEQUENCE_END"), T("FLOW_SEQUENCE_END")>>

NociteValue == "@a @b, @c"

\* the key/value pairs of the top-level mapping
Pairs == {
    Pair("id", "x"),
    Pair("title", "y"),
    Pair("bibliography", "b.bib"),
    Pair("nocite", NociteValue),
    Pair("foo", "z"),
    Pair("foo", "references"),
    FlowSeq("keywords", "k1", "k2"),
    BlockSeq("keywords", "k1", "k2"),
    FlowSeq("foo", "id", "x"),
    FlowMap("foo", "id", "q"),
    BlockMap("foo", "references", "z", "id", "c"),
    RefsIndentless,
    RefsIndented,
    RefsFlow,
    RefsNested }

\* a metadata block: --- line, a block mapping of pairs, ... line
Document(pairs) ==
    <<T("STREAM_START"), T("DOCUMENT_START"), T("BLOCK_MAPPING_START")>>
    \o Flatten(pairs)
    \o <<T("BLOCK_END"), T("DOCUMENT_END"), T("STREAM_END")>>

Documents == UNION {{Document(ps) : ps \in [1..n -> Pairs]} : n \in 0..MaxPairs}

\* texts of links, citations and metadata block markers, and the documents of
\* one pair
BodyTexts ==
    UNION {{Flatten(ws) : ws \in [1..n -> {<<"[", "[", "x", "]", "]">>, <<"@", "a">>,
                                           <<"-", "-", "-", NL>>, <<NL>>}]}
           : n \in 0..MaxFrags}
GuestDocuments == {Document(<<p>>) : p \in Pairs}

\* lines of prose with numbered-example markers, bracketed email addresses
\* and mailto links, and nothing else that could make a record
ProseTexts ==
    UNION {{Flatten(ws) : ws \in [1..n -> {<<"x", " ">>,
                                           <<"(", "@", "a", ")">>,
                                           <<"<", "a", "@", "b", ">">>,
                                           <<"m", "a", "i", "l", "t", "o", ":",
                                             "a", "@", "b">>,
                                           <<NL>>}]}
           : n \in 0..MaxFrags}

(***************************************************************************)
(* Initial states and specifications.                                      *)
(***************************************************************************)
\* the static zmSubparser of ZettelMetadataParser, an empty cork queue
ZmInit ==
    /\ kind = K_NONE
    /\ role = R_NONE
    /\ scalarType = S_NONE
    /\ blockTypeStack = <<>>
    /\ reference = FALSE
    /\ mapping = 0
    /\ sequence = 0
    /\ id = NULL
    /\ title = NULL
    /\ citekey = NULL
    /\ reftitle = NULL
    /\ corkStack = <<>>
    /\ refCorkStack = <<>>
    /\ crashed = FALSE
    /\ store = <<>>
    /\ hist = [afterKey |-> FALSE, unknownPair |-> FALSE, sinceFlush |-> {}]

\* the fields' .enabled as ZettelMetadataFieldTable sets it, and as options may
FieldDefaults == [identifier |-> FALSE, title |-> FALSE, summary |-> FALSE]
FieldOptions == [{"identifier", "title", "summary"} -> BOOLEAN]

\* the prefixes as their definitions set them, and as the parameters
\* title-prefix, reftitle-prefix, keyword-prefix, bibliography-prefix may
PrefixDefaults == [title |-> NULL, reftitle |-> NULL, keyword |-> NULL,
                   bibliography |-> NULL]
PrefixOptions ==
    {PrefixDefaults,
     [title |-> Str("T:"), reftitle |-> Str("R:"), keyword |-> Str("K:"),
      bibliography |-> Str("B:")]}

\* no tag is being rendered
RenderIdle == [lang |-> "", kind |-> K_NONE, name |-> <<>>, buffer |-> NULL]

\* the scanner before its first step, on the text txt
ScanInit(txt) ==
    /\ input = txt
    /\ offset = 0
    /\ table = "main"
    /\ tstack = <<>>
    /\ scanning = TRUE
    /\ guestStart = NoMatch
    /\ promises = <<>>

ScanIdle ==
    /\ input = <<>>
    /\ offset = 0
    /\ table = "main"
    /\ tstack = <<>>
    /\ scanning = FALSE
    /\ guestStart = NoMatch
    /\ promises = <<>>

\* zmNewTokenCallback on the next token of the stream
Offered == IF pending = <<>> THEN {} ELSE {Head(pending)}

Callback ==
    \/ \E tok \in Offered : StreamStart(tok)
    \/ \E tok \in Offered : Flush(tok)
    \/ \E tok \in Offered : MappingStart(tok)
    \/ \E tok \in Offered : SequenceStart(tok)
    \/ \E tok \in Offered : BlockEnd(tok)
    \/ \E tok \in Offered : FlowMappingEnd(tok)
    \/ \E tok \in Offered : FlowSequenceEnd(tok)
    \/ \E tok \in Offered : Key(tok)
    \/ \E tok \in Offered : Scalar(tok)
    \/ \E tok \in Offered : Other(tok)

\* the region scanner on every text made of at most MaxFrags fragments
InitScan ==
    /\ ZmInit
    /\ fieldEnabled = FieldDefaults
    /\ prefixes = PrefixDefaults
    /\ render = RenderIdle
    /\ pending = <<>>
    /\ \E txt \in Texts : ScanInit(txt)
SpecScan == InitScan /\ [][ScanStep]_vars

\* the region scanner on every prose text
InitProse ==
    /\ ZmInit
    /\ fieldEnabled = FieldDefaults
    /\ prefixes = PrefixDefaults
    /\ render = RenderIdle
    /\ pending = <<>>
    /\ \E txt \in ProseTexts : ScanInit(txt)
SpecProse == InitProse /\ [][ScanStep]_vars

\* the region scanner on every text that begins with a verbatim line
VerbatimTexts == {<<TAB, NL>> \o txt : txt \in Texts}
InitVerbatim ==
    /\ ZmInit
    /\ fieldEnabled = FieldDefaults
    /\ prefixes = PrefixDefaults
    /\ render = RenderIdle
    /\ pending = <<>>
    /\ \E txt \in VerbatimTexts : ScanInit(txt)
SpecVerbatim == InitVerbatim /\ [][ScanStep]_vars

\* the metadata callback on the token stream of every document of at most
\* MaxPairs top-level pairs
InitDoc ==
    /\ ZmInit
    /\ fieldEnabled \in FieldOptions
    /\ prefixes = PrefixDefaults
    /\ render = RenderIdle
    /\ pending \in Documents
    /\ ScanIdle
SpecDoc == InitDoc /\ [][Callback]_vars

\* the same with the prefixes set or not, the fields as they are by default
InitOptions ==
    /\ ZmInit
    /\ fieldEnabled = FieldDefaults
    /\ prefixes \in PrefixOptions
    /\ render = RenderIdle
    /\ pending \in Documents
    /\ ScanIdle
SpecOptions == InitOptions /\ [][Callback]_vars

\* The bytes names are made of: space, !, %, 1, 2, K, backslash and 0xC3,
\* with the character each is in the patterns' classes.
HI == "HI"
Chr == (32 :> " ") @@ (33 :> "!") @@ (37 :> "%") @@ (49 :> "1") @@ (50 :> "2")
       @@ (75 :> "K") @@ (92 :> BS) @@ (195 :> HI)
NameBytes == DOMAIN Chr
RawNames == UNION {[1..n -> NameBytes] : n \in 1..MaxName}

\* the prefixes as byte strings: none set, all four set, only keyword-prefix set
EncoderPrefixOptions ==
    {PrefixDefaults,
     [title |-> Str(<<84>>), reftitle |-> Str(<<82>>), keyword |-> Str(<<75>>),
      bibliography |-> Str(<<66>>)],
     [title |-> NULL, reftitle |-> NULL, keyword |-> Str(<<75>>),
      bibliography |-> NULL]}

\* the tags of the two parsers a raw name gives: \1 of [[...]] is any run
\* without ], \1 of a citation is a citekey; a scalar value is any string
IsCitekey(raw) ==
    /\ Chr[raw[1]] \in CitekeyStart
    /\ \A i \in DOMAIN raw : Chr[raw[i]] \in CitekeyChars

MarkdownTags(raw) ==
    {[lang |-> "ZettelMarkdown", kind |-> "w", name |-> raw, buffer |-> NULL]}
    \cup (IF IsCitekey(raw)
          THEN {[lang |-> "ZettelMarkdown", kind |-> "c", name |-> <<64>> \o raw,
                 buffer |-> NULL]}
          ELSE {})

MetadataTags(raw) ==
    {[lang |-> "ZettelMetadata", kind |-> k, name |-> zmTagBytes(k, raw), buffer |-> NULL] :
        k \in K_ID..K_REFTITLE}

\* a renderer is called with an empty buffer on a tag of its parser
RenderFieldTag ==
    /\ render.buffer = NULL
    /\ render.lang # ""
    /\ render' = [render EXCEPT !.buffer =
                     Str(IF render.lang = "ZettelMarkdown"
                         THEN zRenderFieldTag(render.name)
                         ELSE zmRenderFieldTag(render.kind, render.name))]
    /\ UNCHANGED <<scanVars, store, zmVars, fieldEnabled, prefixes>>

InitEncode ==
    /\ ZmInit
    /\ fieldEnabled = FieldDefaults
    /\ pending = <<>>
    /\ ScanIdle
    /\ \E raw \in RawNames :
          \/ prefixes = PrefixDefaults /\ render \in MarkdownTags(raw)
          \/ prefixes \in EncoderPrefixOptions /\ render \in MetadataTags(raw)
SpecEncode == InitEncode /\ [][RenderFieldTag]_vars
\* the same runs, for the comparison of a rendered name with every other name
SpecRivals == InitEncode /\ [][RenderFieldTag]_vars

\* A stream the Yaml parser gave up on, at any token, followed by the stream
\* of a later run of the parser.  The earlier document is
\*   id: o / title: p / references: / an indented list with - id: q, title: r
EarlierDocument ==
    Document(<<Pair("id", "o"), Pair("title", "p"),
               <<T("KEY"), S("references"), T("VALUE"), T("BLOCK_SEQUENCE_START")>>
               \o BlockEntry("q", "r") \o <<T("BLOCK_END")>>>>)
Streams ==
    {SubSeq(EarlierDocument, 1, n) \o later :
        n \in 0..Len(EarlierDocument), later \in GuestDocuments}

InitStreams ==
    /\ ZmInit
    /\ fieldEnabled = [identifier |-> TRUE, title |-> TRUE, summary |-> FALSE]
    /\ prefixes = PrefixDefaults
    /\ render = RenderIdle
    /\ pending \in Streams
    /\ ScanIdle
SpecStreams == InitStreams /\ [][Callback]_vars

\* Lists of references whose second entry has one key only:
\*   references: / - id: a, title: t / - id: c      (not indented)
\*   references: [{id: a, title: t}, {title: v}]
RefsIdOnly ==
    <<T("KEY"), S("references"), T("VALUE")>> \o BlockEntry("a", "t")
    \o <<T("BLOCK_ENTRY"), T("BLOCK_MAPPING_START")>> \o Pair("id", "c")
    \o <<T("BLOCK_END")>>
RefsTitleOnly ==
    <<T("KEY"), S("references"), T("VALUE"), T("FLOW_SEQUENCE_START")>>
    \o FlowItem("a", "t")
    \o <<T("FLOW_ENTRY"), T("FLOW_MAPPING_START")>> \o Pair("title", "v")
    \o <<T("FLOW_MAPPING_END"), T("FLOW_SEQUENCE_END")>>
ReferenceLists ==
    {RefsIndentless, RefsIndented, RefsFlow, RefsNested, RefsIdOnly, RefsTitleOnly}

\* the metadata callback on the documents that are a list of references
InitRefs ==
    /\ ZmInit
    /\ fieldEnabled = [identifier |-> TRUE, title |-> TRUE, summary |-> FALSE]
    /\ prefixes = PrefixDefaults
    /\ render = RenderIdle
    /\ pending \in {Document(<<p>>) : p \in ReferenceLists}
    /\ ScanIdle
SpecRefs == InitRefs /\ [][Callback]_vars

\* the keys id and title twice each, with different values, before a list of
\* references:  id: x / title: y / id: w / title: v / references: ...
RepeatedKeys ==
    Pair("id", "x") \o Pair("title", "y") \o Pair("id", "w") \o Pair("title", "v")

InitRepeat ==
    /\ ZmInit
    /\ fieldEnabled = [identifier |-> TRUE, title |-> TRUE, summary |-> FALSE]
    /\ prefixes = PrefixDefaults
    /\ render = RenderIdle
    /\ pending \in {Document(<<RepeatedKeys, p>>) : p \in ReferenceLists}
    /\ ScanIdle
SpecRepeat == InitRepeat /\ [][Callback]_vars

\* After the scan the Yaml parser runs on each submitted area: its tokens are
\* those of some document.  The text of the area does not constrain them here.
GuestStart ==
    /\ ~scanning
    /\ promises # <<>>
    /\ pending = <<>>
    /\ ~crashed
    /\ promises' = Tail(promises)
    /\ pending' \in GuestDocuments
    /\ UNCHANGED <<input, offset, table, tstack, scanning, guestStart, store, kind,
                   role, scalarType, blockTypeStack, reference, mapping, sequence,
                   id, title, citekey, reftitle, corkStack, refCorkStack, crashed,
                   hist, fieldEnabled, prefixes, render>>

\* the scanner on every text, the metadata callback on the areas it submits
Init ==
    /\ ZmInit
    /\ fieldEnabled \in FieldOptions
    /\ prefixes = PrefixDefaults
    /\ render = RenderIdle
    /\ pending = <<>>
    /\ \E txt \in BodyTexts : ScanInit(txt)
Next ==
    \/ ScanStep
    \/ GuestStart
    \/ Callback
Spec == Init /\ [][Next]_vars

(***************************************************************************)
(* Properties of the region scanner.                                       *)
(***************************************************************************)
\* C1: a scan step adds a record to the store only while the current table
\* is main; a step taken in any other table leaves the store as it is.
C1_RecordsOnlyInMain == [][store' # store => table = "main"]_vars

\* the text <!--[[x]] has been scanned up to its end inside the comment
C1_Witness ==
    /\ table = "comment"
    /\ offset = 9
    /\ SubSeq(input, 5, 9) = <<"[", "[", "x", "]", "]">>
    /\ store = <<>>

\* C2: no step removes or alters a stored record; a step taken inside a
\* backtick code block adds none, leaves the block only on a closing fence,
\* and stops the scan when the input has ended.
C2_UnclosedFenceAborts ==
    [][/\ Len(store') >= Len(store)
       /\ SubSeq(store', 1, Len(store)) = store
       /\ table = "backtickcode" =>
             /\ store' = store
             /\ table' = "backtickcode" \/ FenceClose(input, offset + 1, BT) # NoMatch
             /\ offset = Len(input) => ~scanning' /\ table' = "backtickcode"]_vars

\* [[x]], an opening fence that is never closed, [[x]]: the scan has stopped
\* inside the block with the first link's record alone in the store
C2_Witness ==
    /\ input = <<"[", "[", "x", "]", "]", BT, BT, BT, NL, "[", "[", "x", "]", "]">>
    /\ ~scanning
    /\ table = "backtickcode"
    /\ offset = Len(input)
    /\ Len(store) = 1

\* C10: when the scan of next:[[x]] has ended the store holds exactly one
\* record, a wiki link named x whose role is not the reference role.
C10_ForwardLink ==
    (input = <<"n", "e", "x", "t", ":", "[", "[", "x", "]", "]">> /\ ~scanning)
        => /\ Len(store) = 1
           /\ store[1].kind = "wikilink"
           /\ store[1].name = "x"
           /\ store[1].role # "ref"

\* C11: a text made only of prose, numbered-example markers, bracketed email
\* addresses, mailto links and newlines never gets a record.
C11_SkippedConstructs == store = <<>>

(***************************************************************************)
(* Properties of the metadata callback.                                    *)
(***************************************************************************)
\* C3: the value scalar "@a @b, @c" of a top-level nocite key adds exactly
\* three records to the store, named @a, @b and @c in this order, each a
\* citation key with the bibliography role.
C3_NociteSplit ==
    [][(/\ pending # <<>>
        /\ Head(pending) = S(NociteValue)
        /\ scalarType = S_VALUE
        /\ kind = K_CITEKEY
        /\ role = R_REFERENCES
        /\ mapping = 1)
       => /\ Len(store') = Len(store) + 3
          /\ SubSeq(store', 1, Len(store)) = store
          /\ store'[Len(store) + 1].name = "@a"
          /\ store'[Len(store) + 2].name = "@b"
          /\ store'[Len(store) + 3].name = "@c"
          /\ \A n \in Len(store) + 1 .. Len(store) + 3 :
                store'[n].kind = "citekey" /\ store'[n].role = "bibliography"]_vars

\* C4: the records of the references entry with id a and title t carry no
\* identifier but a and no title but t, those of the entry with id b and
\* title u none but b and u; when the stream has ended and the fields are
\* enabled they do carry them.
C4_NoCrossAttachment ==
    \A n \in DOMAIN store :
        /\ store[n].name \in {"@a", "t"} =>
              /\ store[n].identifier \in {NULL, Str("a")}
              /\ store[n].title \in {NULL, Str("t")}
              /\ (pending = <<>> /\ (fieldEnabled.identifier \/ fieldEnabled.summary))
                    => store[n].identifier = Str("a")
              /\ (pending = <<>> /\ (fieldEnabled.title \/ fieldEnabled.summary))
                    => store[n].title = Str("t")
        /\ store[n].name \in {"@b", "u"} =>
              /\ store[n].identifier \in {NULL, Str("b")}
              /\ store[n].title \in {NULL, Str("u")}
              /\ (pending = <<>> /\ (fieldEnabled.identifier \/ fieldEnabled.summary))
                    => store[n].identifier = Str("b")
              /\ (pending = <<>> /\ (fieldEnabled.title \/ fieldEnabled.summary))
                    => store[n].title = Str("u")

\* a document with id x and a references list has been read to its end: the
\* records @a and @b carry their own entry's key and title
C4_Witness ==
    /\ pending = <<>>
    /\ id = Str("x")
    /\ \E n, m \in DOMAIN store :
          /\ n < m
          /\ store[n].name = "@a"
          /\ store[n].identifier = Str("a")
          /\ store[n].title = Str("t")
          /\ store[m].name = "@b"
          /\ store[m].identifier = Str("b")
          /\ store[m].title = Str("u")

\* C5: a step on a STREAM_END, DOCUMENT_START or DOCUMENT_END token leaves
\* every record made from a top-level key since the previous such step with
\* the current id as its identifier, when id is set and the identifier or
\* the summary field is enabled, and with the current title as its title,
\* when title is set and the title or the summary field is enabled.
C5_FlushAnnotates ==
    [][(pending # <<>> /\ Head(pending).type \in FlushTokens)
       => \A n \in hist.sinceFlush :
             (\/ store[n].kind \in {"id", "title", "keyword", "bibliography"}
              \/ store[n].kind = "citekey" /\ store[n].role = "reference")
             => /\ (id # NULL /\ (fieldEnabled.identifier \/ fieldEnabled.summary))
                     => store'[n].identifier = id
                /\ (title # NULL /\ (fieldEnabled.title \/ fieldEnabled.summary))
                     => store'[n].title = title]_vars

\* a title record made before the id key was seen carries the id
C5_Witness ==
    \E n, m \in DOMAIN store :
        /\ n < m
        /\ store[n].kind = "title"
        /\ store[m].kind = "id"
        /\ store[n].identifier = Str(store[m].name)
        /\ store[n].title = Str(store[n].name)
        /\ hist.sinceFlush = {}

\* C6: a key scalar (the scalar after a KEY token) that is neither directly
\* in the top-level mapping (mapping = 1, sequence = 0) nor a key at mapping
\* depth 2 with reference set and sequence < 2 adds no record and changes
\* none of id, title, citekey and reftitle.
C6_KeysAtProperDepth ==
    [][(/\ pending # <<>>
        /\ Head(pending).type = "SCALAR"
        /\ hist.afterKey
        /\ ~(mapping = 1 /\ sequence = 0)
        /\ ~(reference /\ mapping = 2 /\ sequence < 2))
       => UNCHANGED <<store, id, title, citekey, reftitle>>]_vars

\* C7: a scalar inside the value of a top-level key that is not a recognized
\* key name adds no record, changes none of id, title, citekey and reftitle,
\* and leaves the depth counters alone.
C7_UnknownKeyValueIgnored ==
    [][(/\ pending # <<>>
        /\ Head(pending).type = "SCALAR"
        /\ hist.unknownPair)
       => UNCHANGED <<store, id, title, citekey, reftitle, mapping, sequence>>]_vars

\* C8: reference becomes set only on the key scalar references of a pair
\* directly in the top-level mapping.
C8_ReferenceOnlyTopLevel ==
    [][(~reference /\ reference')
       => /\ Head(pending) = S("references")
          /\ hist.afterKey
          /\ mapping = 1
          /\ sequence = 0]_vars

Rendered == render.buffer # NULL
Printable(name) == \A i \in DOMAIN name : name[i] >= 33 /\ name[i] <= 126
ConfiguredPrefixes ==
    {f \in {zmTitlePrefix, zmReftitlePrefix, zmKeywordPrefix, zmBibliographyPrefix} :
        PrefixSize(f) > 0}
\* all bytes in 0x21..0x7E, not starting with !, @ or a configured prefix
PlainName(name) ==
    /\ Printable(name)
    /\ CharAt(name, 0) \notin {EXCLAMATION, 64}
    /\ \A f \in ConfiguredPrefixes : ~StartsWith(name, f[1])
EscapedKind ==
    render.lang = "ZettelMetadata"
    /\ render.kind \in {K_TITLE, K_REFTITLE, K_KEYWORD, K_BIBLIOGRAPHY}
HasByte(name, b) == \E i \in DOMAIN name : name[i] = b

RivalName(raw) ==
    IF render.lang = "ZettelMarkdown"
    THEN (IF render.kind = "c" THEN <<64>> \o raw ELSE raw)
    ELSE zmTagBytes(render.kind, raw)
RivalNames ==
    {RivalName(raw) : raw \in {r \in RawNames :
        (render.lang = "ZettelMarkdown" /\ render.kind = "c") => IsCitekey(r)}}
Encoded(name) ==
    IF render.lang = "ZettelMarkdown" THEN zRenderFieldTag(name)
    ELSE zmRenderFieldTag(render.kind, name)

\* C14: with disjoint prefixes, no other name of the same kind (of up to
\* MaxName bytes, with the escape character, bytes outside 0x21..0x7E, a
\* leading ! or a leading foreign prefix) is rendered as the rendered name is.
C14_Injective ==
    Rendered => \A other \in RivalNames :
                    other # render.name => Encoded(other) # render.buffer[1]

\* the wiki link name %21, which is what the name ! is rendered as, has been
\* rendered, as %2521
C14_Witness ==
    /\ render.lang = "ZettelMarkdown"
    /\ render.kind = "w"
    /\ render.name = <<37, 50, 49>>
    /\ render.buffer = Str(<<37, 50, 53, 50, 49>>)
    /\ zRenderFieldTag(<<33>>) = <<37, 50, 49>>

\* C15: the rendered name does not begin with a literal !, for every kind and
\* every name.
C15_NoLeadingExclamation ==
    Rendered => CharAt(render.buffer[1], 0) # EXCLAMATION

(***************************************************************************)
(* Properties of the deferred stacks and of the subparser's state.         *)
(***************************************************************************)
NextType == IF pending = <<>> THEN "" ELSE Head(pending).type

\* C16: a STREAM_END, DOCUMENT_START or DOCUMENT_END token leaves both stacks
\* empty; with both stacks empty already it changes nothing of the subparser
\* and of the queue, and no token but a scalar changes the queue while both
\* stacks are empty.
C16_FlushEmpties ==
    [][/\ NextType \in FlushTokens =>
            /\ corkStack' = <<>>
            /\ refCorkStack' = <<>>
            /\ (corkStack = <<>> /\ refCorkStack = <<>>) =>
                  UNCHANGED <<store, kind, role, scalarType, blockTypeStack, reference,
                              mapping, sequence, id, title, citekey, reftitle>>
       /\ (corkStack = <<>> /\ refCorkStack = <<>> /\ NextType # "SCALAR") =>
            store' = store]_vars

\* the stream has ended: DOCUMENT_END annotated a tag with the identifier and
\* emptied the stacks, STREAM_END found them empty
C16_Witness ==
    /\ pending = <<>>
    /\ ~crashed
    /\ corkStack = <<>>
    /\ refCorkStack = <<>>
    /\ \E n \in DOMAIN store : store[n].identifier # NULL

\* C17: a STREAM_START token leaves the subparser as it is initially, whatever
\* the tokens before it were, and annotates nothing; no tag of the later
\* stream carries an identifier or a title of the earlier one.
C17_StreamStartResets ==
    /\ [][NextType = "STREAM_START" =>
            /\ kind' = K_NONE /\ role' = R_NONE /\ scalarType' = S_NONE
            /\ blockTypeStack' = <<>> /\ reference' = FALSE
            /\ mapping' = 0 /\ sequence' = 0
            /\ id' = NULL /\ title' = NULL /\ citekey' = NULL /\ reftitle' = NULL
            /\ corkStack' = <<>> /\ refCorkStack' = <<>>
            /\ store' = store]_vars
    /\ [](\A n \in DOMAIN store :
            store[n].name \notin {"o", "p", "@q", "r"} =>
                /\ store[n].identifier \notin {Str("o"), Str("q")}
                /\ store[n].title \notin {Str("p"), Str("r")})

\* the earlier stream stopped inside its list of references, with the
\* identifier o set and tags waiting on both stacks; the title y of the later
\* stream carries its own title and no identifier
C17_Witness ==
    /\ pending = <<>>
    /\ \E n, m \in DOMAIN store :
          /\ n < m
          /\ store[n].name = "@q"
          /\ store[n].identifier = NULL
          /\ store[m].name = "y"
          /\ store[m].title = Str("y")
          /\ store[m].identifier = NULL

\* C18: the tags of an entry of the list of references carry that entry's
\* citation key and title only: the entries are (a, t), (b, u), (c, no
\* title) and (no id, v).
C18_OwnEntryOnly ==
    \A n \in DOMAIN store :
        /\ store[n].name \in {"@a", "t"} =>
              store[n].identifier \in {NULL, Str("a")} /\ store[n].title \in {NULL, Str("t")}
        /\ store[n].name \in {"@b", "u"} =>
              store[n].identifier \in {NULL, Str("b")} /\ store[n].title \in {NULL, Str("u")}
        /\ store[n].name = "@c" =>
              store[n].identifier \in {NULL, Str("c")} /\ store[n].title = NULL
        /\ store[n].name = "v" =>
              store[n].identifier = NULL /\ store[n].title \in {NULL, Str("v")}

OnStack(stack, n) == \E k \in DOMAIN stack : stack[k] = n

\* C19: a scalar read while reference is set changes neither id, title nor
\* the document stack; one read while it is clear changes neither citekey,
\* reftitle nor the reference stack; and a tag's identifier or title field
\* changes only to id or title if the tag is on the document stack, only to
\* citekey or reftitle if it is on the reference stack.
C19_ScopesIndependent ==
    [][/\ (NextType = "SCALAR" /\ reference) => UNCHANGED <<id, title, corkStack>>
       /\ (NextType = "SCALAR" /\ ~reference) =>
              UNCHANGED <<citekey, reftitle, refCorkStack>>
       /\ \A n \in DOMAIN store :
             /\ store'[n].identifier # store[n].identifier =>
                   \/ OnStack(corkStack, n) /\ store'[n].identifier = id
                   \/ OnStack(refCorkStack, n) /\ store'[n].identifier = citekey
             /\ store'[n].title # store[n].title =>
                   \/ OnStack(corkStack, n) /\ store'[n].title = title
                   \/ OnStack(refCorkStack, n) /\ store'[n].title = reftitle]_vars

\* the document id: x with a list of references has been read to its end:
\* the tag x carries the identifier x and the tag @a the citation key a
C19_Witness ==
    /\ pending = <<>>
    /\ \E n, m \in DOMAIN store :
          /\ store[n].name = "x"
          /\ store[n].identifier = Str("x")
          /\ store[m].name = "@a"
          /\ store[m].identifier = Str("a")

\* the number of tokens of the given types in a token sequence
RECURSIVE Count(_, _)
Count(toks, types) ==
    IF toks = <<>> THEN 0
    ELSE (IF Head(toks).type \in types THEN 1 ELSE 0) + Count(Tail(toks), types)
RECURSIVE Opened(_, _)
Opened(stack, types) ==
    IF stack = <<>> THEN 0
    ELSE (IF Head(stack) \in types THEN 1 ELSE 0) + Opened(Tail(stack), types)
EndTokens == {"BLOCK_END", "FLOW_MAPPING_END", "FLOW_SEQUENCE_END"}

\* C20: on a well-nested stream mapping is the number of mappings open,
\* sequence the number of sequences open that a start token opened, and
\* together they are the number of end tokens still to come less the start
\* tokens still to come; neither is negative; an end token finds the block
\* type stack not empty, with the start token it closes on top, and changes
\* the counter of that kind only.
C20_DepthCounters ==
    /\ [](/\ mapping = Opened(blockTypeStack, MappingStartTokens)
          /\ sequence = Opened(blockTypeStack, SequenceStartTokens)
          /\ mapping + sequence
                = Count(pending, EndTokens)
                  - Count(pending, MappingStartTokens \cup SequenceStartTokens)
          /\ mapping >= 0 /\ sequence >= 0
          /\ blockTypeStack = <<>> => mapping = 0 /\ sequence = 0)
    /\ [][(NextType \in EndTokens) =>
            /\ blockTypeStack # <<>>
            /\ NextType = "FLOW_MAPPING_END" => Head(blockTypeStack) = "FLOW_MAPPING_START"
            /\ NextType = "FLOW_SEQUENCE_END" => Head(blockTypeStack) = "FLOW_SEQUENCE_START"
            /\ NextType = "BLOCK_END" =>
                  Head(blockTypeStack) \in {"BLOCK_MAPPING_START", "BLOCK_SEQUENCE_START"}
            /\ (IF Head(blockTypeStack) \in MappingStartTokens
                THEN mapping' = mapping - 1 /\ sequence' = sequence
                ELSE sequence' = sequence - 1 /\ mapping' = mapping)]_vars

\* inside an entry of an indented list of references: two mappings and one
\* sequence are open
C20_Witness ==
    /\ mapping = 2
    /\ sequence = 1
    /\ blockTypeStack = <<"BLOCK_MAPPING_START", "BLOCK_SEQUENCE_START",
                          "BLOCK_MAPPING_START">>
    /\ NextType = "BLOCK_END"

\* C21: with the keys id and title read twice before the flush, each value
\* makes one tag, id and title hold one value at a time, the later one in the
\* end, and once the stream has ended all four tags carry the later identifier
\* and the later title.
C21_LastWriteWins ==
    /\ id \in {NULL, Str("x"), Str("w")}
    /\ title \in {NULL, Str("y"), Str("v")}
    /\ pending = <<>> =>
          /\ id = Str("w") /\ title = Str("v")
          /\ \A name \in {"x", "y", "w", "v"} :
                /\ Cardinality({n \in DOMAIN store :
                                   /\ store[n].name = name
                                   /\ store[n].kind \in {"id", "title"}}) = 1
                /\ \A n \in DOMAIN store :
                      (store[n].name = name /\ store[n].kind \in {"id", "title"}) =>
                          /\ store[n].identifier = Str("w")
                          /\ store[n].title = Str("v")

\* the stream has ended and the tag of the first id carries the second one
C21_Witness ==
    /\ pending = <<>>
    /\ \E n \in DOMAIN store :
          /\ store[n].name = "x"
          /\ store[n].kind = "id"
          /\ store[n].identifier = Str("w")
          /\ store[n].title = Str("v")

(***************************************************************************)
(* Further properties of the region scanner.                               *)
(***************************************************************************)
\* C22: the current table is main with nothing saved, or another table with
\* main alone saved; a step changes the table only from main or to main.
C22_SingleEntryStack ==
    /\ [](/\ table \in TableNames
          /\ Len(tstack) <= 1
          /\ tstack = <<>> => table = "main"
          /\ tstack # <<>> => (tstack = <<"main">> /\ table # "main"))
    /\ [][table' # table => (table = "main" \/ table' = "main")]_vars

\* a verbatim block has been entered and left again, and a metadata block
\* entered after it
C22_Witness ==
    /\ table = "metadata"
    /\ tstack = <<"main">>
    /\ input = <<TAB, NL, "-", "-", "-", NL>>

\* what the step taken in table tbl at offset off does: "stop" (no pattern
\* matches, or tquit, or tleave with nothing saved), "consume" (the offset
\* advances), "switch" (the table changes, the offset does not) or "stall"
StepKind(tbl, off, saved) ==
    LET p == FirstMatch(tbl, input, off + 1)
        pat == Tables[tbl][p]
        len == Match(pat.re, input, off + 1)
    IN  IF p = 0 THEN "stop"
        ELSE IF pat.action = "quit" \/ (pat.action = "leave" /\ saved = <<>>) THEN "stop"
        ELSE IF pat.advanceTo # "0start" /\ len > 0 THEN "consume"
        ELSE IF pat.action \in {"enter", "leave"} THEN "switch"
        ELSE "stall"
\* the table and the saved tables after a step that switches
Switched(tbl, off, saved) ==
    LET pat == Tables[tbl][FirstMatch(tbl, input, off + 1)]
    IN  IF pat.action = "enter" THEN <<pat.to, <<tbl>> \o saved>>
        ELSE <<Head(saved), Tail(saved)>>

\* C23: while the scan runs, the next step consumes at least one character
\* or stops the scan, or it switches the table and the step after it does.
C23_Progress ==
    scanning =>
        \/ StepKind(table, offset, tstack) \in {"stop", "consume"}
        \/ /\ StepKind(table, offset, tstack) = "switch"
           /\ StepKind(Switched(table, offset, tstack)[1], offset,
                       Switched(table, offset, tstack)[2]) \in {"stop", "consume"}
\* a verbatim block followed by a last line without a newline: the scan stays
\* at the start of that line
C23_Stalled ==
    /\ scanning
    /\ input = <<TAB, NL, "@", "a">>
    /\ table = "verbatim"
    /\ offset = 2
    /\ StepKind(table, offset, tstack) = "stall"

\* the characters w stand next at the offset
Ahead(w) == Lit(input, offset + 1, w) /\ offset + Len(w) <= Len(input)
DashLine == <<NL, "-", "-", "-", NL>>
UnderlinedReferences == {<<"[", "[", "x", "]", "]">>, <<"@", "a">>}

\* C24: in main, at a wiki link or a citation followed at once by a newline
\* and a line of dashes, the step consumes the reference together with the
\* dash line, adds one record for the reference and stays in main.
C24_UnderlinedReference ==
    [][\A w \in UnderlinedReferences :
          (scanning /\ table = "main" /\ Ahead(w \o DashLine))
             => /\ offset' = offset + Len(w) + Len(DashLine)
                /\ table' = "main"
                /\ scanning'
                /\ Len(store') = Len(store) + 1
                /\ store'[Len(store')].kind = (IF Head(w) = "@" THEN "citekey" ELSE "wikilink")
                /\ store'[Len(store')].name = (IF Head(w) = "@" THEN "@a" ELSE "x")]_vars
\* the scan has passed an underlined reference and made its record
C24_Witness ==
    /\ \E w \in UnderlinedReferences : input = w \o DashLine
    /\ offset = Len(input)
    /\ table = "main"
    /\ Len(store) = 1

\* C25: a step that enters the metadata, verbatim, fenced-code or
\* backtick-code table starts at the first character of a line.
C25_MarkerAtLineStart ==
    [][(table = "main" /\ table' \in {"metadata", "verbatim", "fencedcode", "backtickcode"})
          => (offset = 0 \/ input[offset] = NL)]_vars

\* one line that begins with four spaces or a tab and holds a reference
IndentedLines ==
    {ind \o w \o <<NL>> : ind \in {FourSpaces, <<TAB>>}, w \in UnderlinedReferences}

\* C26: the scan of a line that begins with four spaces or a tab makes no
\* record of the wiki link or citation on it, and a verbatim block goes on
\* over a following blank line, four-space line or tab line.
C26_IndentedIsVerbatim ==
    /\ [](input \in IndentedLines => store = <<>>)
    /\ [][(/\ scanning
           /\ table = "verbatim"
           /\ Ahead(<<NL>>) \/ Ahead(FourSpaces) \/ Ahead(<<TAB>>))
          => table' = "verbatim"]_vars

\* the name of the record of a reference
RecordName(w) == IF Head(w) = "@" THEN "@a" ELSE "x"

\* C27: the step that leaves the verbatim table consumes nothing and makes
\* no record, the main table does not enter verbatim again at that offset,
\* and when the scan of a verbatim line followed by a line of two references
\* has ended the store holds the records of the two, in their order.
C27_EndLineRescanned ==
    /\ [][(table = "verbatim" /\ table' = "main")
          => /\ offset' = offset
             /\ store' = store
             /\ FirstMatch("main", input, offset + 1) # 0
             /\ Tables["main"][FirstMatch("main", input, offset + 1)].to # "verbatim"]_vars
    /\ [](\A v, w \in UnderlinedReferences :
            (input = <<TAB, NL>> \o v \o w \o <<NL>> /\ ~scanning)
               => /\ Len(store) = 2
                  /\ store[1].name = RecordName(v)
                  /\ store[2].name = RecordName(w))
\* the scan of a verbatim line and a line of two references has ended
C27_Witness ==
    /\ input = <<TAB, NL, "@", "a", "[", "[", "x", "]", "]", NL>>
    /\ ~scanning
    /\ offset = Len(input)
    /\ Len(store) = 2

\* the characters a citation key goes on with: letters, digits, _ and
\* : . # $ % & - + ? < > ~ /
KeyGoesOn == CitekeyStart \cup {":", ".", "#", "$", "%", "&", "-", "+", "?", "<", ">", "~", "/"}
\* the key that begins after the @ at position i of the input
KeyAt(i) == SubSeq(input, i + 1, i + 1 + Run(input, i + 2, KeyGoesOn, FALSE))

\* C28: the record of a citation is named @ and the key: one letter, digit or
\* _ and after it every following character that is a letter, a digit, _ or
\* one of : . # $ % & - + ? < > ~ / up to the first other character.
C28_CitationKey ==
    [][(/\ Len(store') = Len(store) + 1
        /\ store'[Len(store')].kind = "citekey")
       => store'[Len(store')].name = "@" \o Concat(KeyAt(offset + 1))]_vars

====
